---- MODULE Spec2Model ----
(***************************************************************************)
(* A model of python/triton/common/build.py: the memoized discovery        *)
(* functions (libcuda_dirs, rocm_path_dir, cuda_include_dir), the quiet()  *)
(* context manager, the command builder _cc_cmd and the orchestration      *)
(* function _build.                                                        *)
(*                                                                         *)
(* Python values: None is the empty tuple and any other optional value v   *)
(* is <<v>>; str is a TLA+ string and + / f-strings are \o; a list is a    *)
(* sequence.  A path that the code takes apart (the last token of an       *)
(* ldconfig line) is the pair <<directory, file name>>.                    *)
(***************************************************************************)
EXTENDS Naturals, Sequences, FiniteSets, TLC

\* Longest ldconfig listing, longest directory list given to _cc_cmd,
\* deepest nesting of quiet(), most assignments to sys.stdout / sys.stderr by
\* other code.
MaxLines == 2
MaxDirs == 2
MaxDepth == 2
MaxRebinds == 1

VARIABLES
  os_name,     \* os.name, "posix" or "nt"
  hip,         \* torch.version.hip is not None
  cache,       \* the lru_cache of libcuda_dirs, rocm_path_dir, cuda_include_dir
  lib,         \* the latest call of libcuda_dirs: what it saw and what it did
  obs,         \* history of the memoized functions across the process
  frame,       \* the running (or last) call of _build: its position and locals
  sys,         \* sys.stdout and sys.stderr
  quietStack,  \* the suspended quiet() generators: their old_stdout, old_stderr
  qobs,        \* history of quiet(): what each open block saw on entry, last exit
  cmdIn,       \* the arguments of the latest direct call of _cc_cmd
  cmdOut       \* and its result

vars == <<os_name, hip, cache, lib, obs, frame, sys, quietStack, qobs, cmdIn, cmdOut>>

None == <<>>
Some(v) == <<v>>

\* bool(x) of an optional string: None and "" are falsy.
Truthy(x) == x # None /\ x[1] # ""

Last(s) == s[Len(s)]

Range(s) == {s[i] : i \in DOMAIN s}

SeqsUpTo(S, n) == UNION {[1..k -> S] : k \in 0..n}

(***************************************************************************)
(* The host: environment variables, the linker cache, the file system.     *)
(***************************************************************************)
Dir1 == "/usr/lib/x86_64-linux-gnu"
Dir2 == "/usr/lib/i386-linux-gnu"

\* One line of `/sbin/ldconfig -p`, e.g.
\*   libcuda.so.1 (libc6,x86-64) => /lib/x86_64-linux-gnu/libcuda.so.1
\* soname is its first token and loc its last one.
LdLine(soname, dir, base) == [soname |-> soname, loc |-> <<dir, base>>]

LdLines ==
  { LdLine("libcuda.so.1", Dir1, "libcuda.so.1"),
    LdLine("libcuda.so", Dir2, "libcuda.so"),
    LdLine("libcudart.so.12", Dir1, "libcudart.so.12") }

\* What running ldconfig gives: its exit code and its output.
LdOutputs ==
  {[code |-> 0, lines |-> l] : l \in SeqsUpTo(LdLines, MaxLines)}
    \cup {[code |-> 1, lines |-> <<>>]}

\* The files named libcuda.so that may exist.
FileSystems == SUBSET {<<Dir1, "libcuda.so">>, <<Dir2, "libcuda.so">>}

EnvLibcudaPath == {None, Some(""), Some("/opt/cuda/lib64")}
EnvCudaPath == {None, Some("C:\\CUDA")}

\* What libcuda_dirs can look at on a host: the two environment variables, the
\* output of ldconfig and the files. A Windows host has no ldconfig to run, and
\* CUDA_PATH means nothing on the others.
Host(envLib, envCuda, ld, fs) == [envLib |-> envLib, envCuda |-> envCuda, ld |-> ld, fs |-> fs]

NoLd == [code |-> 1, lines |-> <<>>]
EmptyLd == [code |-> 0, lines |-> <<>>]

Hosts(os) ==
  IF os = "nt"
    THEN {Host(e, c, NoLd, {}) : e \in EnvLibcudaPath, c \in EnvCudaPath}
    ELSE {Host(e, None, ld, fs) : e \in EnvLibcudaPath, ld \in LdOutputs, fs \in FileSystems}

\* A call answered from the cache looks at nothing of its host; it is taken on
\* the bare host: no variable set, an empty linker cache, no file.
Unseen == Host(None, None, EmptyLd, {})
EnvRocmPath == {None, Some("/usr/local/rocm")}
EnvCC == {None, Some(""), Some("cl"), Some("tcc"), Some("-fPIC")}
WhichGcc == {None, Some("/usr/bin/gcc")}
WhichClang == {None, Some("/usr/bin/clang")}

\* "libcuda.so" in s, for the strings of this host.
HasLibcudaSo(s) == s \in {"libcuda.so", "libcuda.so.1"}

\* "libcuda.so" in line
Mentions(line) ==
  HasLibcudaSo(line.soname) \/ HasLibcudaSo(line.loc[1]) \/ HasLibcudaSo(line.loc[2])

\* line.split()[-1]
SplitLast(line) == line.loc

\* os.path.dirname(loc)
Dirname(loc) == loc[1]

\* os.path.join(path, 'libcuda.so'), kept as the pair that os.path.exists looks up
JoinLibcuda(path) == <<path, "libcuda.so">>

Sep(os) == IF os = "nt" THEN "\\" ELSE "/"

\* os.path.join(a, b) for a relative b
Join(os, a, b) == IF a = "" THEN b ELSE a \o Sep(os) \o b

(***************************************************************************)
(* libcuda_dirs, lines 20-41: the body under the lru_cache decorator.      *)
(* The result records the outcome and what the call touched.  Assertions   *)
(* are enabled (the interpreter does not run with -O).                     *)
(***************************************************************************)
\* Line 31: [line.split()[-1] for line in libs.splitlines() if "libcuda.so" in line]
RECURSIVE Locs(_)
Locs(lines) ==
  IF lines = <<>> THEN <<>>
  ELSE (IF Mentions(Head(lines)) THEN <<SplitLast(Head(lines))>> ELSE <<>>)
         \o Locs(Tail(lines))

\* Line 32: [os.path.dirname(loc) for loc in locs]
RECURSIVE Dirs(_)
Dirs(locs) == IF locs = <<>> THEN <<>> ELSE <<Dirname(Head(locs))>> \o Dirs(Tail(locs))

LibcudaMsg(locs) ==
  <<"libcuda.so cannot found!\n">> \o
  (IF locs # <<>>
     THEN <<"Possible files are located at %s.", locs,
            "Please create a symlink of libcuda.so to any of the file.">>
     ELSE <<"Please make sure GPU is setup and then run \"/sbin/ldconfig\"",
            " (requires sudo) to refresh the linker cache.">>)

\* any(os.path.exists(os.path.join(path, 'libcuda.so')) for path in dirs):
\* the paths probed, up to and including the first that exists.
RECURSIVE Probes(_, _)
Probes(dirs, fs) ==
  IF dirs = <<>> THEN <<>>
  ELSE IF JoinLibcuda(Head(dirs)) \in fs THEN <<JoinLibcuda(Head(dirs))>>
  ELSE <<JoinLibcuda(Head(dirs))>> \o Probes(Tail(dirs), fs)

\* Variant: only checks that ldconfig listed something.
AnyExists_listed(dirs, fs) == dirs # <<>>

AnyExists(dirs, fs) == Probes(dirs, fs) # <<>> /\ Last(Probes(dirs, fs)) \in fs

Outcome(kind, value, ldconfig, cudaPath, probes, msg) ==
  [kind |-> kind, value |-> value, readEnv |-> TRUE, ldconfig |-> ldconfig,
   cudaPath |-> cudaPath, probes |-> probes, msg |-> msg]

\* Variant: `is not None` in place of truthiness.
EnvOverride_present(envLib) == envLib # None

EnvOverride(envLib) == Truthy(envLib)

libcuda_dirs(os, envLib, envCuda, ld, fs) ==
  IF EnvOverride(envLib)
    THEN Outcome("return", <<envLib[1]>>, FALSE, FALSE, <<>>, <<>>)
  ELSE IF os = "nt"
    THEN IF envCuda = None
           THEN Outcome("TypeError", <<>>, FALSE, TRUE, <<>>, <<>>)
           ELSE Outcome("return", <<envCuda[1] \o "\\lib\\x64">>, FALSE, TRUE, <<>>, <<>>)
  ELSE IF ld.code # 0
    THEN Outcome("CalledProcessError", <<>>, TRUE, FALSE, <<>>, <<>>)
  ELSE
    LET locs == Locs(ld.lines)
        dirs == Dirs(locs)
    IN IF AnyExists(dirs, fs)
         THEN Outcome("return", dirs, TRUE, FALSE, Probes(dirs, fs), <<>>)
         ELSE Outcome("AssertionError", <<>>, TRUE, FALSE, Probes(dirs, fs),
                      LibcudaMsg(locs))

\* rocm_path_dir, line 46: os.getenv("ROCM_PATH", default="/opt/rocm")
rocm_path_dir(envRocm) == IF envRocm = None THEN "/opt/rocm" ELSE envRocm[1]

\* cuda_include_dir, lines 61-63, with __file__ in <site>/triton/common
PackageDir == "/site/triton/common"
cuda_include_dir(os) ==
  LET base_dir == Join(os, PackageDir, "..")
      cuda_path == Join(os, Join(os, base_dir, "third_party"), "cuda")
  IN Join(os, cuda_path, "include")

(***************************************************************************)
(* functools.lru_cache() on a function of no arguments: the cached value   *)
(* is returned without running the body; a body that raises caches         *)
(* nothing.                                                                *)
(***************************************************************************)
\* Variant: the decorator left out.
CacheNeverHit(cached) == FALSE

CacheHit(cached) == cached # None

Cached(cached) ==
  [kind |-> "return", value |-> cached[1], readEnv |-> FALSE, ldconfig |-> FALSE,
   cudaPath |-> FALSE, probes |-> <<>>, msg |-> <<>>]

\* The outcome of a memoized call, given the outcome r its body would have.
Memo(cached, r) == IF CacheHit(cached) THEN Cached(cached) ELSE r

\* The cache after that call.
Store(cached, r) ==
  IF CacheHit(cached) THEN cached
  ELSE IF r.kind = "return" THEN Some(r.value) ELSE cached

(***************************************************************************)
(* _cc_cmd, lines 66-81.  os is os.name.                                   *)
(***************************************************************************)
\* cc_cmd.index(x): the first position holding x
RECURSIVE Index(_, _)
Index(s, x) == IF Head(s) = x THEN 1 ELSE 1 + Index(Tail(s), x)

\* cc_cmd.pop(i)
Pop(s, i) == SubSeq(s, 1, i - 1) \o SubSeq(s, i + 1, Len(s))

\* if os.name == "nt": cc_cmd.pop(cc_cmd.index("-fPIC"))
DropFPIC(os, c) == IF os = "nt" THEN Pop(c, Index(c, "-fPIC")) ELSE c

IsMsvc(cc) == cc = "cl"

\* [f"{prefix}{dir}" for dir in dirs]
RECURSIVE Flags(_, _)
Flags(prefix, dirs) ==
  IF dirs = <<>> THEN <<>> ELSE <<prefix \o Head(dirs)>> \o Flags(prefix, Tail(dirs))

_cc_cmd(os, cc, src, out, include_dirs, library_dirs) ==
  IF IsMsvc(cc)
    THEN <<cc, src, "/nologo", "/O2", "/LD">>
           \o Flags("/I", include_dirs)
           \o <<"/link">>
           \o Flags("/LIBPATH:", library_dirs)
           \o <<"cuda.lib", "/OUT:" \o out>>
    ELSE DropFPIC(os,
           <<cc, src, "-O3", "-shared", "-fPIC">>
             \o Flags("-I", include_dirs)
             \o Flags("-L", library_dirs)
             \o <<"-lcuda", "-o", out>>)

(***************************************************************************)
(* quiet, lines 49-56.  A stream object is a record; io.StringIO() makes   *)
(* an object that is none of the objects alive.                            *)
(***************************************************************************)
Stream(kind, id) == [kind |-> kind, id |-> id]
OrigStdout == Stream("tty", 1)
OrigStderr == Stream("tty", 2)

\* The objects alive: bound to sys.stdout / sys.stderr or held by a quiet() frame.
Alive(s, stack) ==
  {s.stdout, s.stderr} \cup UNION {{f.old_stdout, f.old_stderr} : f \in Range(stack)}

\* io.StringIO(): a new buffer, distinct from every object in `alive`.
StringIO(alive) ==
  Stream("StringIO", CHOOSE n \in 1..(Cardinality(alive) + 1) :
                        Stream("StringIO", n) \notin alive)

\* Lines 51-52: what the generator keeps, and the streams inside the block.
quiet_saved(s) == [old_stdout |-> s.stdout, old_stderr |-> s.stderr]

quiet_enter(s, stack) ==
  LET out == StringIO(Alive(s, stack))
      err == StringIO(Alive(s, stack) \cup {out})
  IN [stdout |-> out, stderr |-> err]

\* Variant: restores the interpreter's own streams (sys.__stdout__).
quiet_exit_dunder(saved) == [stdout |-> OrigStdout, stderr |-> OrigStderr]

\* Line 56, the finally clause: runs when the body ends and when it raises.
quiet_exit(saved) == [stdout |-> saved.old_stdout, stderr |-> saved.old_stderr]

(***************************************************************************)
(* _build, lines 84-158, as the steps of one call.                         *)
(***************************************************************************)
Unbound == <<>>

\* sysconfig.get_config_var('EXT_SUFFIX')
ExtSuffix(os) == IF os = "nt" THEN ".cp311-win_amd64.pyd"
                 ELSE ".cpython-311-x86_64-linux-gnu.so"

\* sysconfig.get_default_scheme()
DefaultSchemes(os) == IF os = "nt" THEN {"nt"} ELSE {"posix_prefix", "posix_local"}

\* Lines 109-110
FixScheme(scheme) == IF scheme = "posix_local" THEN "posix_prefix" ELSE scheme

\* sysconfig.get_paths(scheme=scheme)["include"]
PyInclude(scheme) ==
  CASE scheme = "nt" -> "C:\\Python311\\Include"
    [] scheme = "posix_prefix" -> "/usr/include/python3.11"
    [] OTHER -> "/usr/local/include/python3.11"

InstalledBase == "C:\\Python311"
EnvPythonLibDirs == {None, Some("D:\\pylibs")}

\* Lines 112-115
PyLibDirs(os, envPyLib) ==
  IF os = "nt"
    THEN <<IF envPyLib = None THEN Join(os, InstalledBase, "libs") ELSE envPyLib[1]>>
    ELSE <<>>

\* Variant: falls back on "cc" when nothing is found.
DetectCC_cc_default(envCC, gcc, clang) ==
  IF envCC # None THEN envCC
  ELSE IF gcc # None THEN gcc
  ELSE IF clang # None THEN clang ELSE Some("cc")

\* Lines 94-99: the compiler chosen (None when there is none). CC is used
\* whenever it is present, whatever its value.
DetectCC(envCC, gcc, clang) ==
  IF envCC # None THEN envCC
  ELSE IF gcc # None THEN gcc ELSE clang

\* Lines 118-121: the command of the HIP branch
HipCmd(cc, src, hip_include_dir, py_include_dir, srcdir, hip_lib_dir, so) ==
  <<cc, src, "-I" \o hip_include_dir, "-I" \o py_include_dir, "-I" \o srcdir,
    "-shared", "-fPIC", "-L" \o hip_lib_dir, "-lamdhip64", "-o", so>>

\* Variant: subprocess.call, which returns the exit code whatever it is.
check_call_returncode(code) == [kind |-> "return", value |-> code]

\* subprocess.check_call: returns 0, or raises CalledProcessError on any
\* other exit code.
check_call(code) ==
  IF code = 0 THEN [kind |-> "return", value |-> 0]
  ELSE [kind |-> "CalledProcessError", value |-> code]

\* Variant: the test inverted.
RetOk_inverted(ret) == ret # 0

\* Line 126
RetOk(ret) == ret = 0

(***************************************************************************)
(* The state after import: nothing cached, no call made.                   *)
(***************************************************************************)
NoLibCall ==
  [host |-> Unseen, prior |-> {}, called |-> FALSE, r |-> Cached(Some(<<>>))]

NoObs ==
  [libRet |-> {}, rocmRet |-> {}, incRet |-> {},
   staleEnv |-> FALSE, staleLd |-> FALSE, failAfter |-> FALSE]

IdleFrame ==
  [pc |-> "idle", name |-> "", src |-> "", srcdir |-> "",
   hip_lib_dir |-> Unbound, hip_include_dir |-> Unbound,
   cuda_lib_dirs |-> Unbound, cu_include_dir |-> Unbound,
   so |-> Unbound, cc |-> Unbound, py_include_dir |-> Unbound,
   py_lib_dirs |-> Unbound, ret |-> Unbound,
   host |-> Unbound, cmd |-> <<>>, events |-> <<>>, touched |-> {},
   result |-> [kind |-> "none", value |-> None]]

NoCmdIn ==
  [os |-> "posix", cc |-> "", src |-> "", out |-> "",
   include_dirs |-> <<>>, library_dirs |-> <<>>]

NoQobs == [entered |-> <<>>, last |-> None, rebinds |-> 0]

Start ==
  /\ cache = [libcuda |-> None, rocm |-> None, cudainc |-> None]
  /\ lib = NoLibCall
  /\ obs = NoObs
  /\ frame = IdleFrame
  /\ sys = [stdout |-> OrigStdout, stderr |-> OrigStderr]
  /\ quietStack = <<>>
  /\ qobs = NoQobs
  /\ cmdIn = NoCmdIn
  /\ cmdOut = None

Init ==
  /\ os_name \in {"posix", "nt"}
  /\ hip \in BOOLEAN
  /\ Start

(***************************************************************************)
(* Calls of the memoized functions.                                        *)
(***************************************************************************)
\* The hosts a call of libcuda_dirs() may find itself on.
HostsSeen == IF CacheHit(cache.libcuda) THEN {Unseen} ELSE Hosts(os_name)

\* What a call of libcuda_dirs() does on host h.
LibCall(h) ==
  Memo(cache.libcuda, libcuda_dirs(os_name, h.envLib, h.envCuda, h.ld, h.fs))

LibRecord(h, r) == [host |-> h, prior |-> obs.libRet, called |-> TRUE, r |-> r]

ObsLib(o, r) ==
  [o EXCEPT !.libRet = IF r.kind = "return" THEN @ \cup {r.value} ELSE @,
            !.staleEnv = @ \/ (o.libRet # {} /\ (r.readEnv \/ r.cudaPath)),
            !.staleLd = @ \/ (o.libRet # {} /\ r.ldconfig),
            !.failAfter = @ \/ (o.libRet # {} /\ r.kind # "return")]

\* What a call of rocm_path_dir() does, given its cache.
RocmCallWith(cached, envRocm) ==
  IF CacheHit(cached) THEN [value |-> cached[1], readEnv |-> FALSE]
  ELSE [value |-> rocm_path_dir(envRocm), readEnv |-> TRUE]

RocmCall(envRocm) == RocmCallWith(cache.rocm, envRocm)

ObsRocm(o, r) ==
  [o EXCEPT !.rocmRet = @ \cup {r.value},
            !.staleEnv = @ \/ (o.rocmRet # {} /\ r.readEnv)]

\* What a call of cuda_include_dir() does.
IncCall == IF CacheHit(cache.cudainc) THEN cache.cudainc[1] ELSE cuda_include_dir(os_name)

ObsInc(o, v) == [o EXCEPT !.incRet = @ \cup {v}]

Idle == frame.pc = "idle"

CallLibcudaDirs ==
  /\ Idle
  /\ \E h \in HostsSeen :
       LET r == LibCall(h) IN
       /\ lib' = LibRecord(h, r)
       /\ cache' = [cache EXCEPT !.libcuda = Store(@, r)]
       /\ obs' = ObsLib(obs, r)
  /\ UNCHANGED <<os_name, hip, frame, sys, quietStack, qobs, cmdIn, cmdOut>>

CallRocmPathDir ==
  /\ Idle
  /\ \E envRocm \in EnvRocmPath :
       LET r == RocmCall(envRocm) IN
       /\ cache' = [cache EXCEPT !.rocm = Some(r.value)]
       /\ obs' = ObsRocm(obs, r)
  /\ UNCHANGED <<os_name, hip, lib, frame, sys, quietStack, qobs, cmdIn, cmdOut>>

CallCudaIncludeDir ==
  /\ Idle
  /\ cache' = [cache EXCEPT !.cudainc = Some(IncCall)]
  /\ obs' = ObsInc(obs, IncCall)
  /\ UNCHANGED <<os_name, hip, lib, frame, sys, quietStack, qobs, cmdIn, cmdOut>>

(***************************************************************************)
(* _build(name, src, srcdir), one step per action.  The CC variable and    *)
(* the compilers on PATH are those of the host during the call.            *)
(***************************************************************************)
Names == {"cuda_utils"}
Sources == {"/tmp/k/main.c"}
SrcDirs == {"/tmp/k"}

Raise(f, kind) == [f EXCEPT !.pc = "idle", !.result = [kind |-> kind, value |-> None]]
Return(f, v) == [f EXCEPT !.pc = "idle", !.result = [kind |-> "return", value |-> Some(v)]]

BuildEnter ==
  /\ Idle
  /\ \E name \in Names, src \in Sources, srcdir \in SrcDirs,
        envCC \in EnvCC, gcc \in WhichGcc, clang \in WhichClang :
       frame' = [IdleFrame EXCEPT
                   !.pc = "l85", !.name = name, !.src = src, !.srcdir = srcdir,
                   !.host = Some([envCC |-> envCC, gcc |-> gcc, clang |-> clang])]
  /\ UNCHANGED <<os_name, hip, cache, lib, obs, sys, quietStack, qobs, cmdIn, cmdOut>>

\* Lines 85-87: is_hip() holds
DiscoverHip ==
  \E e1 \in EnvRocmPath, e2 \in EnvRocmPath :
    LET r1 == RocmCallWith(cache.rocm, e1)
        r2 == RocmCallWith(Some(r1.value), e2)
    IN /\ frame' = [frame EXCEPT !.pc = "l91",
                                 !.hip_lib_dir = Some(Join(os_name, r1.value, "lib")),
                                 !.hip_include_dir = Some(Join(os_name, r2.value, "include")),
                                 !.touched = @ \cup {"rocm_path_dir"}]
       /\ cache' = [cache EXCEPT !.rocm = Some(r2.value)]
       /\ obs' = ObsRocm(ObsRocm(obs, r1), r2)
       /\ lib' = lib

\* Lines 88-90: is_hip() does not hold
DiscoverCuda ==
  \E h \in HostsSeen :
    LET r == LibCall(h)
        t == {"libcuda_dirs"} \cup (IF r.ldconfig THEN {"ldconfig"} ELSE {})
    IN /\ lib' = lib
       /\ IF r.kind = "return"
            THEN /\ frame' = [frame EXCEPT !.pc = "l91",
                                           !.cuda_lib_dirs = Some(r.value),
                                           !.cu_include_dir = Some(IncCall),
                                           !.touched = @ \cup t \cup {"cuda_include_dir"}]
                 /\ cache' = [cache EXCEPT !.libcuda = Store(@, r),
                                           !.cudainc = Some(IncCall)]
                 /\ obs' = ObsInc(ObsLib(obs, r), IncCall)
            ELSE /\ frame' = Raise([frame EXCEPT !.touched = @ \cup t], r.kind)
                 /\ cache' = [cache EXCEPT !.libcuda = Store(@, r)]
                 /\ obs' = ObsLib(obs, r)

BuildDiscover ==
  /\ frame.pc = "l85"
  /\ IF hip THEN DiscoverHip ELSE DiscoverCuda
  /\ UNCHANGED <<os_name, hip, sys, quietStack, qobs, cmdIn, cmdOut>>

\* Lines 91-101
BuildDetect ==
  /\ frame.pc = "l91"
  /\ LET h == frame.host[1]
         cc == DetectCC(h.envCC, h.gcc, h.clang)
         f == [frame EXCEPT
                 !.so = Some(Join(os_name, frame.srcdir,
                                  frame.name \o ExtSuffix(os_name))),
                 !.cc = cc]
     IN frame' = IF cc = None THEN Raise(f, "RuntimeError")
                 ELSE [f EXCEPT !.pc = "l102"]
  /\ UNCHANGED <<os_name, hip, cache, lib, obs, sys, quietStack, qobs, cmdIn, cmdOut>>

\* Lines 102-115
BuildPaths ==
  /\ frame.pc = "l102"
  /\ \E scheme \in DefaultSchemes(os_name), envPyLib \in EnvPythonLibDirs :
       frame' = [frame EXCEPT !.pc = "l117",
                              !.py_include_dir = Some(PyInclude(FixScheme(scheme))),
                              !.py_lib_dirs = Some(PyLibDirs(os_name, envPyLib))]
  /\ UNCHANGED <<os_name, hip, cache, lib, obs, sys, quietStack, qobs, cmdIn, cmdOut>>

\* Lines 117-124: the command line handed to subprocess.check_call
BuildCmd(f) ==
  IF hip
    THEN HipCmd(f.cc[1], f.src, f.hip_include_dir[1], f.py_include_dir[1],
                f.srcdir, f.hip_lib_dir[1], f.so[1])
    ELSE _cc_cmd(os_name, f.cc[1], f.src, f.so[1],
                 <<f.cu_include_dir[1], f.py_include_dir[1], f.srcdir>>,
                 f.cuda_lib_dirs[1] \o f.py_lib_dirs[1])

\* check_call starts the child; the executable may be missing (OSError).
BuildSpawn ==
  /\ frame.pc = "l117"
  /\ \E started \in BOOLEAN :
       LET f == [frame EXCEPT !.cmd = BuildCmd(frame),
                              !.events = Append(@, "cc_start")]
       IN frame' = IF started THEN [f EXCEPT !.pc = "wait"] ELSE Raise(f, "OSError")
  /\ UNCHANGED <<os_name, hip, cache, lib, obs, sys, quietStack, qobs, cmdIn, cmdOut>>

ExitCodes == {0, 1}

\* check_call waits for the child and returns or raises.
BuildCompilerExit ==
  /\ frame.pc = "wait"
  /\ \E code \in ExitCodes :
       LET r == check_call(code)
           f == [frame EXCEPT
                   !.events = Append(@, IF code = 0 THEN "cc_exit_0" ELSE "cc_exit_nonzero")]
       IN frame' = IF r.kind = "return"
                     THEN [f EXCEPT !.pc = "l126", !.ret = Some(r.value)]
                     ELSE Raise(f, r.kind)
  /\ UNCHANGED <<os_name, hip, cache, lib, obs, sys, quietStack, qobs, cmdIn, cmdOut>>

\* Lines 126-158. setuptools.setup either builds the extension or fails.
BuildFinish ==
  /\ frame.pc = "l126"
  /\ \E built \in BOOLEAN :
       IF RetOk(frame.ret[1])
         THEN /\ frame' = Return(frame, frame.so[1])
              /\ sys' = sys
         ELSE IF frame.cuda_lib_dirs = Unbound \/ frame.cu_include_dir = Unbound
           THEN /\ frame' = Raise(frame, "UnboundLocalError")
                /\ sys' = sys
           ELSE LET f == [frame EXCEPT !.events = Append(@, "setup")]
                IN /\ frame' = IF built THEN Return(f, f.so[1])
                                ELSE Raise(f, "SystemExit")
                   /\ sys' = quiet_exit(quiet_saved(sys))
  /\ UNCHANGED <<os_name, hip, cache, lib, obs, quietStack, qobs, cmdIn, cmdOut>>

Next ==
  \/ BuildEnter
  \/ BuildDiscover
  \/ BuildDetect
  \/ BuildPaths
  \/ BuildSpawn
  \/ BuildCompilerExit
  \/ BuildFinish

Spec == Init /\ [][Next]_vars

\* The memoized functions called directly, in any order, on a changing host.
NextMemo ==
  \/ CallLibcudaDirs
  \/ CallRocmPathDir
  \/ CallCudaIncludeDir

InitMemo ==
  /\ os_name \in {"posix", "nt"}
  /\ hip = FALSE
  /\ Start

SpecMemo == InitMemo /\ [][NextMemo]_vars

(***************************************************************************)
(* quiet() used directly: `with quiet():` blocks, nested up to MaxDepth,   *)
(* whose bodies may rebind sys.stdout / sys.stderr and may raise.          *)
(***************************************************************************)
Front(s) == SubSeq(s, 1, Len(s) - 1)

\* Entering the block: lines 51-52, up to the yield.
QuietEnter ==
  /\ Len(quietStack) < MaxDepth
  /\ quietStack' = Append(quietStack, quiet_saved(sys))
  /\ sys' = quiet_enter(sys, quietStack)
  /\ qobs' = [qobs EXCEPT !.entered = Append(@, [before |-> sys, inside |-> sys'])]
  /\ UNCHANGED <<os_name, hip, cache, lib, obs, frame, cmdIn, cmdOut>>

\* Other code (the body of a block included) assigns to sys.stdout or sys.stderr.
Rebind ==
  /\ qobs.rebinds < MaxRebinds
  /\ \E which \in {"stdout", "stderr"}, obj \in {Stream("file", 1), OrigStdout, OrigStderr} :
       /\ sys[which] # obj
       /\ sys' = [sys EXCEPT ![which] = obj]
  /\ qobs' = [qobs EXCEPT !.rebinds = @ + 1]
  /\ UNCHANGED <<os_name, hip, cache, lib, obs, frame, quietStack, cmdIn, cmdOut>>

\* Leaving the innermost block, normally or by an exception: the finally clause.
QuietExit ==
  /\ quietStack # <<>>
  /\ \E raised \in BOOLEAN :
       /\ sys' = quiet_exit(Last(quietStack))
       /\ qobs' = [qobs EXCEPT
                     !.entered = Front(@),
                     !.last = Some([before |-> Last(qobs.entered).before,
                                    inside |-> sys, after |-> sys',
                                    raised |-> raised])]
  /\ quietStack' = Front(quietStack)
  /\ UNCHANGED <<os_name, hip, cache, lib, obs, frame, cmdIn, cmdOut>>

NextQuiet == QuietEnter \/ Rebind \/ QuietExit

SpecQuiet == InitMemo /\ [][NextQuiet]_vars

(***************************************************************************)
(* _cc_cmd called directly on every combination of small arguments.        *)
(***************************************************************************)
CcNames == {"gcc", "cl", "-fPIC"}
SrcNames == {"main.c", "k.c"}
OutNames == {"cuda_utils.so"}
DirNames == {"/a", "/b"}

InitCmd ==
  /\ os_name \in {"posix", "nt"}
  /\ hip = FALSE
  /\ cache = [libcuda |-> None, rocm |-> None, cudainc |-> None]
  /\ lib = NoLibCall
  /\ obs = NoObs
  /\ frame = IdleFrame
  /\ sys = [stdout |-> OrigStdout, stderr |-> OrigStderr]
  /\ quietStack = <<>>
  /\ qobs = NoQobs
  /\ cmdIn \in [os : {os_name}, cc : CcNames, src : SrcNames, out : OutNames,
                 include_dirs : SeqsUpTo(DirNames, MaxDirs),
                 library_dirs : SeqsUpTo(DirNames, MaxDirs)]
  /\ cmdOut = None

CallCcCmd ==
  /\ cmdOut = None
  /\ cmdOut' = Some(_cc_cmd(cmdIn.os, cmdIn.cc, cmdIn.src, cmdIn.out,
                            cmdIn.include_dirs, cmdIn.library_dirs))
  /\ UNCHANGED <<os_name, hip, cache, lib, obs, frame, sys, quietStack, qobs, cmdIn>>

NextCmd == CallCcCmd

SpecCmd == InitCmd /\ [][NextCmd]_vars

(***************************************************************************)
(* Properties.                                                             *)
(***************************************************************************)
Count(s, x) == Cardinality({i \in DOMAIN s : s[i] = x})

Finished == frame.pc = "idle" /\ frame.result.kind # "none"

Invoked(e) == e \in Range(frame.events)

NoCompilerOnHost ==
  /\ frame.host # Unbound
  /\ frame.host[1].envCC = None
  /\ frame.host[1].gcc = None
  /\ frame.host[1].clang = None

\* C1: when the direct compiler invocation ends with a non-zero exit code,
\* setuptools.setup is run and _build returns the extension path instead of
\* raising the error of the direct invocation.
C1_FallbackAfterNonZeroExit ==
  (Finished /\ Invoked("cc_exit_nonzero")) =>
    /\ Invoked("setup")
    /\ frame.result.kind # "CalledProcessError"
    /\ frame.result.kind = "return" => frame.result.value = frame.so

\* C2 as stated: with CC unset and neither gcc nor clang found, _build raises
\* RuntimeError, starts no compiler, runs no setuptools.setup and returns no path.
C2_RuntimeErrorWhenNoCompiler ==
  (Finished /\ NoCompilerOnHost) =>
    /\ frame.result.kind = "RuntimeError"
    /\ ~Invoked("cc_start")
    /\ ~Invoked("setup")

\* C2 as amended: with CC unset and neither gcc nor clang found, _build starts
\* no compiler, runs no setuptools.setup and returns no path; it raises
\* RuntimeError when the discovery before it (lines 85-90) did not raise, and
\* otherwise the error libcuda_dirs raised, which happens only off the HIP path.
C2_NoCompilerNoBuild ==
  (Finished /\ NoCompilerOnHost) =>
    /\ frame.result.kind # "return"
    /\ ~Invoked("cc_start")
    /\ ~Invoked("setup")
    /\ frame.cmd = <<>>
    /\ (frame.so # Unbound => frame.result.kind = "RuntimeError")
    /\ (frame.so = Unbound =>
          /\ ~hip
          /\ frame.cuda_lib_dirs = Unbound
          /\ frame.result.kind \in {"AssertionError", "TypeError", "CalledProcessError"})
    /\ (hip => frame.result.kind = "RuntimeError")

C2_Witness ==
  Finished /\ NoCompilerOnHost /\ frame.result.kind = "RuntimeError" /\ ~hip

\* The directories of the ldconfig lines that mention libcuda.so, in order.
ListedDirs(lines) ==
  LET sel == SelectSeq(lines, Mentions)
  IN [i \in 1..Len(sel) |-> sel[i].loc[1]]

HasFile(dirs, fs) == \E i \in DOMAIN dirs : <<dirs[i], "libcuda.so">> \in fs

Discovery(pre) ==
  pre =>
    /\ (lib.r.kind = "return" => HasFile(lib.r.value, lib.host.fs))
    /\ (lib.r.kind = "return" => lib.r.value = ListedDirs(lib.host.ld.lines))
    /\ (~HasFile(ListedDirs(lib.host.ld.lines), lib.host.fs) =>
          /\ lib.r.kind = "AssertionError"
          /\ lib.r.msg # <<>>
          /\ lib.r.msg[1] = "libcuda.so cannot found!\n"
          /\ lib.r.value = <<>>)
    /\ (HasFile(ListedDirs(lib.host.ld.lines), lib.host.fs) => lib.r.kind = "return")

PosixNoOverride == lib.called /\ os_name # "nt" /\ ~Truthy(lib.host.envLib)

\* C3 as stated: on a non-Windows host with TRITON_LIBCUDA_PATH unset or empty,
\* libcuda_dirs returns only if one of the returned directories holds libcuda.so,
\* fails with 'libcuda.so cannot found!' otherwise, and returns exactly the
\* directories of the ldconfig lines that mention libcuda.so, in order (on a
\* host whose ldconfig runs).
C3_DiscoveryOnEveryCall == Discovery(PosixNoOverride /\ lib.host.ld.code = 0)

\* C3 as amended: the same, for a call that is not answered from the cache (no
\* earlier call returned) and whose ldconfig run exits with 0.
C3_DiscoveryOnFirstRun ==
  Discovery(PosixNoOverride /\ lib.prior = {} /\ lib.host.ld.code = 0)

C3_Witness ==
  /\ PosixNoOverride /\ lib.prior = {} /\ lib.host.ld.code = 0
  /\ lib.r.kind = "return"
  /\ lib.r.value = <<Dir1, Dir2>>
  /\ <<Dir1, "libcuda.so">> \notin lib.host.fs

\* C4: with TRITON_LIBCUDA_PATH non-empty at a first call of libcuda_dirs the
\* result is the one-element list of that value on every platform, ldconfig is
\* not run, CUDA_PATH is not read and no file is probed; an empty value gives
\* what an unset variable gives.
C4_EnvOverride ==
  (lib.called /\ lib.prior = {}) =>
    /\ Truthy(lib.host.envLib) =>
         /\ lib.r.kind = "return"
         /\ lib.r.value = <<lib.host.envLib[1]>>
         /\ ~lib.r.ldconfig
         /\ ~lib.r.cudaPath
         /\ lib.r.probes = <<>>
    /\ lib.host.envLib = Some("") =>
         /\ lib.r.kind = "return" => lib.r.value # <<"">>
         /\ \E h \in Hosts(os_name) :
              /\ h.envLib = None /\ h.envCuda = lib.host.envCuda
              /\ h.ld = lib.host.ld /\ h.fs = lib.host.fs
              /\ lib.r = libcuda_dirs(os_name, h.envLib, h.envCuda, h.ld, h.fs)

C4_Witness ==
  /\ lib.called /\ lib.prior = {} /\ os_name = "nt"
  /\ lib.host.envLib = Some("/opt/cuda/lib64")
  /\ lib.host.envCuda = None
  /\ lib.r.value = <<"/opt/cuda/lib64">>

\* C5: once libcuda_dirs (likewise rocm_path_dir, cuda_include_dir) has returned
\* a value, every later call returns that value, without reading the environment
\* and without running ldconfig, whatever the host has become.
C5_Memoized ==
  /\ Cardinality(obs.libRet) <= 1
  /\ Cardinality(obs.rocmRet) <= 1
  /\ Cardinality(obs.incRet) <= 1
  /\ ~obs.staleEnv
  /\ ~obs.staleLd
  /\ ~obs.failAfter
  /\ (lib.called /\ lib.prior # {}) => (lib.r.kind = "return" /\ lib.prior = {lib.r.value})

C5_Witness ==
  /\ lib.called /\ lib.prior = {<<Dir2>>} /\ lib.r.value = <<Dir2>>
  /\ obs.rocmRet = {"/opt/rocm"}
  /\ obs.incRet # {}

\* C6: in one call of _build the compiler is started at most once and
\* setuptools.setup at most once, setup never before the compiler has exited and
\* never after it exited with 0.
C6_NoRetry ==
  /\ Count(frame.events, "cc_start") <= 1
  /\ Count(frame.events, "setup") <= 1
  /\ \A i \in DOMAIN frame.events :
       frame.events[i] = "setup" =>
         /\ \E j \in 1..(i - 1) : frame.events[j] = "cc_exit_nonzero"
         /\ \A j \in DOMAIN frame.events : frame.events[j] # "cc_exit_0"
  /\ (frame.ret # Unbound /\ frame.ret[1] = 0 /\ Finished) =>
        (frame.result.kind = "return" /\ ~Invoked("setup"))

C6_Witness ==
  /\ Finished /\ frame.result.kind = "return"
  /\ frame.events = <<"cc_start", "cc_exit_0">>

\* C7: the compiler is CC whenever CC is present (whatever its value), else gcc
\* when gcc is found, else clang; the compiler handed to the subprocess is
\* exactly that one.
C7_CompilerPriority ==
  frame.cmd # <<>> =>
    LET h == frame.host[1] IN
    /\ h.envCC # None => frame.cmd[1] = h.envCC[1]
    /\ (h.envCC = None /\ h.gcc # None) => frame.cmd[1] = h.gcc[1]
    /\ (h.envCC = None /\ h.gcc = None) => (h.clang # None /\ frame.cmd[1] = h.clang[1])

IncludePrefix(cc) == IF cc = "cl" THEN "/I" ELSE "-I"
LibraryPrefix(cc) == IF cc = "cl" THEN "/LIBPATH:" ELSE "-L"

\* The positions of cmd that hold a flag made of prefix and one of DirNames.
FlagPositions(cmd, prefix) ==
  {i \in DOMAIN cmd : \E d \in DirNames : cmd[i] = prefix \o d}

\* cmd holds one flag per directory, in the order of dirs, at the positions ps.
FlagsInOrder(cmd, ps, prefix, dirs) ==
  /\ Cardinality(ps) = Len(dirs)
  /\ \A i \in DOMAIN dirs :
       \E p \in ps : /\ Cardinality({q \in ps : q < p}) = i - 1
                     /\ cmd[p] = prefix \o dirs[i]

CcCmdShape(in, c) ==
  LET n == Len(c)
      incs == FlagPositions(c, IncludePrefix(in.cc))
      libs == FlagPositions(c, LibraryPrefix(in.cc))
  IN /\ n >= 2 /\ c[1] = in.cc /\ c[2] = in.src
     /\ FlagsInOrder(c, incs, IncludePrefix(in.cc), in.include_dirs)
     /\ FlagsInOrder(c, libs, LibraryPrefix(in.cc), in.library_dirs)
     /\ \A p \in incs, q \in libs : p < q
     /\ (c[3] = "/nologo") <=> (in.cc = "cl")
     /\ in.cc = "cl" => (c[n] = "/OUT:" \o in.out /\ c[n - 1] = "cuda.lib")
     /\ in.cc # "cl" =>
          /\ c[n] = in.out /\ c[n - 1] = "-o"
          /\ ("-fPIC" \in Range(SubSeq(c, 3, n - 2))) <=> (in.os # "nt")

\* C8: for every compiler, source, output and directory lists, the command of
\* _cc_cmd starts with the compiler and the source, holds one include flag per
\* include directory and one library flag per library directory, in order, the
\* include flags first, ends with the output designation, has the MSVC form
\* exactly for "cl", and otherwise holds -fPIC exactly off Windows.
C8_CcCmdShape == cmdOut # None => CcCmdShape(cmdIn, cmdOut[1])

\* The same shape for every compiler and source other than the literal "-fPIC".
CcCmdShapeOnOtherNames ==
  (cmdOut # None /\ cmdIn.cc # "-fPIC" /\ cmdIn.src # "-fPIC") =>
    CcCmdShape(cmdIn, cmdOut[1])

\* C9: on leaving a quiet() block, normally or by an exception, sys.stdout and
\* sys.stderr are the objects they were on entering it, nested blocks included;
\* on entering, both are new StringIO buffers, distinct from each other and from
\* the objects they replace.
C9_QuietRestores ==
  /\ qobs.last # None =>
       /\ qobs.last[1].after.stdout = qobs.last[1].before.stdout
       /\ qobs.last[1].after.stderr = qobs.last[1].before.stderr
  /\ \A i \in DOMAIN qobs.entered :
       LET e == qobs.entered[i] IN
       /\ e.inside.stdout.kind = "StringIO"
       /\ e.inside.stderr.kind = "StringIO"
       /\ e.inside.stdout # e.inside.stderr
       /\ {e.inside.stdout, e.inside.stderr} \cap {e.before.stdout, e.before.stderr} = {}
  /\ (quietStack = <<>> /\ qobs.rebinds = 0) =>
       sys = [stdout |-> OrigStdout, stderr |-> OrigStderr]

C9_Witness ==
  /\ qobs.last # None
  /\ qobs.last[1].raised
  /\ qobs.last[1].inside.stdout.kind = "file"
  /\ qobs.last[1].before.stdout.kind = "StringIO"
  /\ Len(quietStack) = 1

\* C10: on the HIP path _build calls neither libcuda_dirs nor cuda_include_dir
\* (no ldconfig, no libcuda.so assertion), and its command links -lamdhip64 with
\* the include and lib directories under rocm_path_dir() and no -lcuda; off the
\* HIP path rocm_path_dir is not called; no step reached on the HIP path reads a
\* local that path left unbound.
C10_DisjointPaths ==
  /\ hip =>
       /\ frame.touched \subseteq {"rocm_path_dir"}
       /\ frame.result.kind \notin {"AssertionError", "TypeError", "UnboundLocalError"}
       /\ frame.cuda_lib_dirs = Unbound /\ frame.cu_include_dir = Unbound
       /\ frame.cmd # <<>> =>
            LET n == Len(frame.cmd)
                flags == Range(SubSeq(frame.cmd, 3, n - 1))
            IN /\ "-lamdhip64" \in flags
               /\ "-lcuda" \notin flags
               /\ "cuda.lib" \notin flags
               /\ \E e \in EnvRocmPath :
                    /\ cache.rocm = Some(rocm_path_dir(e))
                    /\ ("-I" \o Join(os_name, rocm_path_dir(e), "include")) \in flags
                    /\ ("-L" \o Join(os_name, rocm_path_dir(e), "lib")) \in flags
  /\ ~hip =>
       /\ "rocm_path_dir" \notin frame.touched
       /\ frame.hip_lib_dir = Unbound /\ frame.hip_include_dir = Unbound
       /\ frame.cmd # <<>> => "-lamdhip64" \notin Range(frame.cmd)

C10_Witness ==
  /\ hip /\ Finished /\ frame.result.kind = "return"
  /\ frame.cmd # <<>>
  /\ frame.touched = {"rocm_path_dir"}

====
